---- MODULE Spec2Model ----
(***************************************************************************)
(* Model of the resumable batch pipeline of pg-scraper:                    *)
(*   src/progressTracker.js - ProgressTracker (the checkpoint store)       *)
(*   src/unnamed/part_000   - processEssaysInParallel (the batch runner)   *)
(*   src/scrapeEssays.js    - scrapeEssays (the essay list), main and      *)
(*                            parseArgs                                    *)
(*   src/searchHackerNews.js - searchHackerNewsForEssay (the search)       *)
(* Spec is the program with kills and resumes, LiveSpec one launch that    *)
(* is not killed, LoopSpec one call of processEssaysInParallel on a longer *)
(* list, TrackerSpec the tracker's methods called one after the other,     *)
(* SearchSpec searchHackerNewsForEssay called on its own and SessionsSpec  *)
(* the sessions of one working directory.                                  *)
(* JavaScript runs one callback at a time: every action below is the code  *)
(* between two awaits.  File writes are asynchronous: fs.writeFile is      *)
(* started by one action and settles in a later one.                       *)
(***************************************************************************)
EXTENDS Integers, Sequences, FiniteSets, TLC

\* longest essay list the articles page yields
MaxEssays == 2
\* number of times the program is launched on the session (first run + resumes)
MaxRuns == 2
\* largest numeric value given to --batch-size
MaxBatchArg == 2
\* longest list of remaining essays one call of processEssaysInParallel is
\* followed through on its own
MaxRemaining == 5
\* largest batch size of such a call
MaxWidth == 2
\* longest essay list handed to initializeEssays by a caller of the tracker
MaxSeeded == 3
\* number of times searchHackerNewsForEssay is called for one essay
MaxCalls == 2

\* latest reading of the clock at which a fresh session is started
MaxClock == 2

\* parseArgs: options.batchSize, and main(resumeSessionId, batchSize = 5)
DefaultBatchSize == 5

Range(s) == {s[k] : k \in DOMAIN s}

Min(a, b) == IF a < b THEN a ELSE b

Max(a, b) == IF a > b THEN a ELSE b

(***************************************************************************)
(* JavaScript numbers: an integer or NaN.                                  *)
(***************************************************************************)
NaN == [nan |-> TRUE, v |-> 0]

Num(n) == [nan |-> FALSE, v |-> n]

\* a + b
NumAdd(a, b) == IF a.nan \/ b.nan THEN NaN ELSE Num(a.v + b.v)

\* a < n for an integer n: every comparison with NaN is false
NumLess(a, n) == ~a.nan /\ a.v < n

\* ToIntegerOrInfinity, as Array.prototype.slice applies it to its arguments
ToInteger(a) == IF a.nan THEN 0 ELSE a.v

\* relative index of Array.prototype.slice clamped into 0..len
SliceIndex(a, len) ==
    LET k == ToInteger(a)
    IN  IF k < 0 THEN Max(len + k, 0) ELSE Min(k, len)

\* slice that loses the last element of the range
SlicePositionsShort(from, to, len) ==
    {j \in 1..len : SliceIndex(from, len) < j /\ j < SliceIndex(to, len)}

\* the (1-based) positions of array.slice(from, to) in an array of length len
SlicePositions(from, to, len) ==
    {j \in 1..len : SliceIndex(from, len) < j /\ j <= SliceIndex(to, len)}

(***************************************************************************)
(* parseInt(text, 10) on a command line token, a sequence of characters.   *)
(***************************************************************************)
DigitChars == <<"0", "1", "2", "3", "4", "5", "6", "7", "8", "9">>

IsDigit(c) == \E d \in DOMAIN DigitChars : DigitChars[d] = c

DigitValue(c) == (CHOOSE d \in DOMAIN DigitChars : DigitChars[d] = c) - 1

RECURSIVE DigitPrefix(_, _)
\* value of the longest prefix of digits of s, continuing from acc
DigitPrefix(s, acc) ==
    IF s = <<>> \/ ~IsDigit(Head(s)) THEN acc
    ELSE DigitPrefix(Tail(s), 10 * acc + DigitValue(Head(s)))

ParseInt(s) ==
    LET neg == s # <<>> /\ Head(s) = "-"
        body == IF neg THEN Tail(s) ELSE s
    IN  IF body = <<>> \/ ~IsDigit(Head(body)) THEN NaN
        ELSE Num((IF neg THEN -1 ELSE 1) * DigitPrefix(body, 0))

\* the tokens that may follow --batch-size
BatchSizeArgs ==
    {<<DigitChars[n + 1]>> : n \in 0..MaxBatchArg} \cup {<<"x">>, <<"1", "x">>}

\* the command line: --batch-size absent, or given with a token
NoBatchSizeOption == [given |-> FALSE, text |-> <<>>]

BatchSizeOptions ==
    {NoBatchSizeOption} \cup {[given |-> TRUE, text |-> t] : t \in BatchSizeArgs}

\* parseArgs: the batch size handed to main
ParseBatchSize(arg) ==
    IF arg.given THEN ParseInt(arg.text) ELSE Num(DefaultBatchSize)

(***************************************************************************)
(* The articles page and scrapeEssays.                                     *)
(***************************************************************************)
Link(t, u) == [title |-> t, url |-> u]

\* pages of n links: all different; the first link repeated at the end (same
\* URL); or the last link carrying the first link's text under its own URL
PageOf(n, shape) ==
    LET plain == [k \in 1..n |-> Link(k, k)]
    IN  CASE shape = "plain" -> plain
          [] shape = "sameUrl" -> Append(plain, Link(1, 1))
          [] shape = "sameTitle" -> [plain EXCEPT ![n] = Link(1, n)]

Pages ==
    {PageOf(n, "plain") : n \in 0..MaxEssays}
        \cup {PageOf(n, "sameUrl") : n \in 1..(MaxEssays - 1)}
        \cup {PageOf(n, "sameTitle") : n \in 2..MaxEssays}

\* self.findIndex((e) => e.url === essay.url)
FindIndexByUrl(list, u) == CHOOSE k \in DOMAIN list :
    /\ list[k].url = u
    /\ \A m \in 1..(k - 1) : list[m].url # u

RECURSIVE KeepFirstByUrl(_, _)
\* essays.filter((essay, index, self) => index === self.findIndex(...)),
\* scanning positions k..Len(list)
KeepFirstByUrl(list, k) ==
    IF k > Len(list) THEN <<>>
    ELSE (IF FindIndexByUrl(list, list[k].url) = k THEN <<list[k]>> ELSE <<>>)
             \o KeepFirstByUrl(list, k + 1)

ScrapeEssays(page) == KeepFirstByUrl(page, 1)

(***************************************************************************)
(* ProgressTracker: the session state and its synchronous operations.      *)
(***************************************************************************)
\* totalEssays before initializeEssays has set it
Undefined == -1

EmptyMap == [t \in {} |-> 0]

NewState ==
    [essays |-> <<>>, processedEssays |-> <<>>, results |-> EmptyMap,
     currentIndex |-> 0, completed |-> FALSE, totalEssays |-> Undefined]

\* this.state.results[key] = value
Put(m, key, value) ==
    [t \in DOMAIN m \cup {key} |-> IF t = key THEN value ELSE m[t]]

RECURSIVE MaxPoints(_)
\* hnPosts.length > 0 ? Math.max(...hnPosts.map((p) => p.points)) : 0
MaxPoints(posts) ==
    IF posts = <<>> THEN 0
    ELSE IF Len(posts) = 1 THEN posts[1].points
    ELSE Max(posts[1].points, MaxPoints(Tail(posts)))

ResultEntry(essay, posts) ==
    [essay |-> essay, hn_posts |-> posts, total_posts |-> Len(posts),
     max_points |-> MaxPoints(posts)]

\* initializeEssays, up to its await
InitializeEssays(s, essays) ==
    [s EXCEPT !.essays = essays, !.totalEssays = Len(essays)]

\* markEssayProcessed that stores the result only after the saves
MarkEssayProcessedNoResult(s, essay, posts) ==
    [s EXCEPT !.processedEssays = Append(@, essay.title),
              !.currentIndex = @ + 1]

\* markEssayProcessed, up to its await
MarkEssayProcessed(s, essay, posts) ==
    [s EXCEPT !.processedEssays = Append(@, essay.title),
              !.results = Put(@, essay.title, ResultEntry(essay, posts)),
              !.currentIndex = @ + 1]

\* getRemainingEssays without the filter
GetRemainingEssaysAll(s) == s.essays

\* getRemainingEssays that hands the unprocessed essays out last first
GetRemainingEssaysReversed(s) ==
    LET processedTitles == Range(s.processedEssays)
        kept == SelectSeq(s.essays,
                          LAMBDA essay : essay.title \notin processedTitles)
    IN  [k \in 1..Len(kept) |-> kept[Len(kept) + 1 - k]]

\* getRemainingEssays
GetRemainingEssays(s) ==
    LET processedTitles == Range(s.processedEssays)
    IN  SelectSeq(s.essays, LAMBDA essay : essay.title \notin processedTitles)

IsComplete(s) == Len(s.processedEssays) >= Len(s.essays)

\* markCompleted, up to its await
MarkCompleted(s) == [s EXCEPT !.completed = TRUE]

(***************************************************************************)
(* Files.  A file is absent, holds the text of one JSON.stringify, or      *)
(* holds text no JSON.parse accepts (a truncated or interleaved write).    *)
(***************************************************************************)
Absent == [kind |-> "absent"]

Torn == [kind |-> "torn"]

Json(data) == [kind |-> "json", data |-> data]

Files == {"progress", "results"}

\* a write that is not in progress
NoWrite == [phase |-> "none"]

\* fs.writeFile(file, text) started and not yet settled
Pending(text) == [phase |-> "inflight", text |-> text]

\* the promise of saveProgress or saveResults has resolved: both catch the
\* rejection of fs.writeFile, so their caller sees no difference
Settled == [phase |-> "settled"]

IsSettled(w) == w.phase = "settled"

\* writer 0 is main (initializeEssays, markCompleted); writer j > 0 is the
\* markEssayProcessed call of the essay at position j of remainingEssays
Writers == 0..Max(MaxEssays, MaxRemaining)

NoWrites == [k \in Writers |-> [f \in Files |-> NoWrite]]

\* what the search of one essay hands to markEssayProcessed: the search
\* service knows one story, about the essay at URL 1
SearchOutcomes(essay) ==
    IF essay.url = 1 THEN {<<[id |-> 1, points |-> 2]>>} ELSE {<<>>}

\* the essays for which the requests of a search may be rejected
FailingUrls == {1}

\* no tracker method has been called from outside the pipeline
NoCall == [op |-> "none"]

\* searchHackerNewsForEssay has not been called on its own
NoSearch == [at |-> "idle"]

VARIABLES
    pc,               \* where main is
    batchSize,        \* main's batchSize
    state,            \* tracker.state
    disk,             \* the progress file and the results file of the session
    wr,               \* the writes in flight, per writer and file
    remainingEssays,  \* processEssaysInParallel: remainingEssays
    i,                \* processEssaysInParallel: the loop variable i
    members,          \* per remaining essay, its batch promise
    searchCalls,      \* essays searchHackerNewsForEssay was called for, this run
    loaded,           \* processedEssays as loadSession found them, this run
    resolved,         \* titles whose markEssayProcessed has resolved, this run
    writeFailed,      \* some write of this run was rejected
    runs,             \* launches of the program so far
    delayedAt,        \* values of i at which the delay between batches ran
    returned,         \* what the last call of a tracker method returned
    search            \* the call of searchHackerNewsForEssay in progress

vars == <<pc, batchSize, state, disk, wr, remainingEssays, i, members,
          searchCalls, loaded, resolved, writeFailed, runs, delayedAt,
          returned, search>>

Running ==
    {"seeding", "check", "loop", "wait", "delay", "report", "completing"}

Init ==
    /\ pc = "init"
    /\ batchSize = Num(DefaultBatchSize)
    /\ state = NewState
    /\ disk = [f \in Files |-> Absent]
    /\ wr = NoWrites
    /\ remainingEssays = <<>>
    /\ i = Num(0)
    /\ members = <<>>
    /\ searchCalls = {}
    /\ loaded = <<>>
    /\ resolved = {}
    /\ writeFailed = FALSE
    /\ runs = 0
    /\ delayedAt = {}
    /\ returned = NoCall
    /\ search = NoSearch

(***************************************************************************)
(* Helpers of the actions.                                                 *)
(***************************************************************************)
InFlight(f) == {k \in Writers : wr[k][f].phase = "inflight"}

\* saveProgress: fs.writeFile(progressFile, JSON.stringify(state)) is started
StartProgressWrite(k, s) ==
    [wr EXCEPT ![k]["progress"] = Pending(Json(s))]

\* Promise.all([saveProgress(), saveResults()]): both writes are started
StartBothWrites(k, s) ==
    [wr EXCEPT ![k] = [f \in Files |->
        IF f = "progress" THEN Pending(Json(s)) ELSE Pending(Json(s.results))]]

\* loadSession: readFile + JSON.parse, or the fresh state of the constructor
LoadSession(file) == IF file.kind = "json" THEN file.data ELSE NewState

\* the positions of remainingEssays.slice(i, i + batchSize)
BatchPositions ==
    SlicePositions(i, NumAdd(i, batchSize), Len(remainingEssays))

\* Math.floor(i / batchSize) + 1 for the batches that have members
BatchNum == (i.v \div batchSize.v) + 1

NoMember == [at |-> "pending", group |-> 0, failed |-> FALSE]

\* the process is gone, and with it everything it held in memory
ProcessEnds ==
    /\ batchSize' = Num(DefaultBatchSize)
    /\ state' = NewState
    /\ wr' = NoWrites
    /\ remainingEssays' = <<>>
    /\ i' = Num(0)
    /\ members' = <<>>
    /\ searchCalls' = {}
    /\ loaded' = <<>>
    /\ resolved' = {}
    /\ writeFailed' = FALSE
    /\ delayedAt' = {}

\* a main that scrapes and seeds on every launch
MainStartAlwaysScrapes(resume, arg, page) ==
    /\ pc \in {"init", "dead", "exited"}
    /\ runs < MaxRuns
    /\ pc # "init" => resume
    \* a launch without --resume names its session after the current time:
    \* the files of that session do not exist yet
    /\ ~resume => \A f \in Files : disk[f] = Absent
    /\ LET tracker == IF resume THEN LoadSession(disk["progress"]) ELSE NewState
           scrape == TRUE
           seeded == InitializeEssays(tracker, ScrapeEssays(page))
       IN  /\ state' = IF scrape THEN seeded ELSE tracker
           /\ wr' = IF scrape THEN StartProgressWrite(0, seeded) ELSE NoWrites
           /\ pc' = IF scrape THEN "seeding" ELSE "check"
           /\ loaded' = tracker.processedEssays
    /\ batchSize' = ParseBatchSize(arg)
    /\ runs' = runs + 1
    /\ remainingEssays' = <<>>
    /\ i' = Num(0)
    /\ members' = <<>>
    /\ searchCalls' = {}
    /\ resolved' = {}
    /\ writeFailed' = FALSE
    /\ delayedAt' = {}
    /\ UNCHANGED <<disk, returned, search>>

(***************************************************************************)
(* main, from its start to its first await.  resume: a session id was      *)
(* given; arg: the --batch-size token; page: what the articles page holds  *)
(* if it is scraped.  The program is launched on a new session, or, after  *)
(* a kill or a failed exit, with --resume on the session it left behind.   *)
(***************************************************************************)
MainStart(resume, arg, page) ==
    /\ pc \in {"init", "dead", "exited"}
    /\ runs < MaxRuns
    /\ pc # "init" => resume
    \* a launch without --resume names its session after the current time:
    \* the files of that session do not exist yet
    /\ ~resume => \A f \in Files : disk[f] = Absent
    /\ LET tracker == IF resume THEN LoadSession(disk["progress"]) ELSE NewState
           scrape == ~resume \/ Len(tracker.essays) = 0
           seeded == InitializeEssays(tracker, ScrapeEssays(page))
       IN  /\ state' = IF scrape THEN seeded ELSE tracker
           /\ wr' = IF scrape THEN StartProgressWrite(0, seeded) ELSE NoWrites
           /\ pc' = IF scrape THEN "seeding" ELSE "check"
           /\ loaded' = tracker.processedEssays
    /\ batchSize' = ParseBatchSize(arg)
    /\ runs' = runs + 1
    /\ remainingEssays' = <<>>
    /\ i' = Num(0)
    /\ members' = <<>>
    /\ searchCalls' = {}
    /\ resolved' = {}
    /\ writeFailed' = FALSE
    /\ delayedAt' = {}
    /\ UNCHANGED <<disk, returned, search>>

\* initializeEssays: await this.saveProgress() has settled
Seeded ==
    /\ pc = "seeding"
    /\ IsSettled(wr[0]["progress"])
    /\ wr' = NoWrites
    /\ pc' = "check"
    /\ UNCHANGED <<batchSize, state, disk, remainingEssays, i, members,
                   searchCalls, loaded, resolved, writeFailed, runs, delayedAt,
                   returned, search>>

\* main: tracker.isComplete() holds, processEssaysInParallel is skipped
SkipSearch ==
    /\ pc = "check"
    /\ IsComplete(state)
    /\ pc' = "report"
    /\ UNCHANGED <<batchSize, state, disk, wr, remainingEssays, i, members,
                   searchCalls, loaded, resolved, writeFailed, runs, delayedAt,
                   returned, search>>

\* processEssaysInParallel is entered: remainingEssays, and i = 0
StartSearch ==
    /\ pc = "check"
    /\ ~IsComplete(state)
    /\ remainingEssays' = GetRemainingEssays(state)
    /\ i' = Num(0)
    /\ members' = [j \in 1..Len(GetRemainingEssays(state)) |-> NoMember]
    /\ pc' = "loop"
    /\ UNCHANGED <<batchSize, state, disk, wr, searchCalls, loaded, resolved,
                   writeFailed, runs, delayedAt,
                   returned, search>>

\* a pass of the for loop that launches one essay more than the slice holds
LaunchBatchWider ==
    /\ pc = "loop"
    /\ NumLess(i, Len(remainingEssays))
    /\ LET wider == BatchPositions \cup
                        {j \in DOMAIN members :
                            j - 1 \in BatchPositions /\ members[j].at = "pending"}
       IN  /\ members' = [j \in DOMAIN members |->
                  IF j \in wider
                  THEN [at |-> "searching", group |-> BatchNum, failed |-> FALSE]
                  ELSE members[j]]
           /\ searchCalls' = searchCalls \cup {remainingEssays[j] : j \in wider}
    /\ pc' = "wait"
    /\ UNCHANGED <<batchSize, state, disk, wr, remainingEssays, i, loaded,
                   resolved, writeFailed, runs, delayedAt,
                   returned, search>>

\* one pass of the for loop, to Promise.all: every member of the batch has
\* called searchHackerNewsForEssay and waits for its first request
LaunchBatch ==
    /\ pc = "loop"
    /\ NumLess(i, Len(remainingEssays))
    /\ members' = [j \in DOMAIN members |->
           IF j \in BatchPositions
           THEN [at |-> "searching", group |-> BatchNum, failed |-> FALSE]
           ELSE members[j]]
    /\ searchCalls' = searchCalls \cup {remainingEssays[j] : j \in BatchPositions}
    /\ pc' = "wait"
    /\ UNCHANGED <<batchSize, state, disk, wr, remainingEssays, i, loaded,
                   resolved, writeFailed, runs, delayedAt,
                   returned, search>>

\* the for loop ends: return tracker.getResults()
ReturnResults ==
    /\ pc = "loop"
    /\ ~NumLess(i, Len(remainingEssays))
    /\ pc' = "report"
    /\ UNCHANGED <<batchSize, state, disk, wr, remainingEssays, i, members,
                   searchCalls, loaded, resolved, writeFailed, runs, delayedAt,
                   returned, search>>

\* member j: the search resolves with its posts and markEssayProcessed runs to
\* its await.  searchHackerNewsForEssay catches every error of its own and
\* resolves with [] then, so the member's catch block has nothing to catch.
SearchResolves(j) ==
    /\ j \in DOMAIN members
    /\ members[j].at = "searching"
    /\ \E posts \in SearchOutcomes(remainingEssays[j]) :
           LET s == MarkEssayProcessed(state, remainingEssays[j], posts)
           IN  /\ state' = s
               /\ wr' = StartBothWrites(j, s)
    /\ members' = [members EXCEPT ![j].at = "recording"]
    /\ UNCHANGED <<pc, batchSize, disk, remainingEssays, i, searchCalls,
                   loaded, resolved, writeFailed, runs, delayedAt,
                   returned, search>>

\* a search that hands the failed essay on without recording it
SearchFailsUnrecorded(j) ==
    /\ j \in DOMAIN members
    /\ members[j].at = "searching"
    /\ remainingEssays[j].url \in FailingUrls
    /\ members' = [members EXCEPT ![j].at = "done", ![j].failed = TRUE]
    /\ UNCHANGED <<pc, batchSize, state, disk, wr, remainingEssays, i,
                   searchCalls, loaded, resolved, writeFailed, runs, delayedAt,
                   returned, search>>

\* member j: every request of the search is rejected, or a response has not
\* the expected shape: searchHackerNewsForEssay catches the error and resolves
\* with [], and markEssayProcessed runs to its await with no posts
SearchFails(j) ==
    /\ j \in DOMAIN members
    /\ members[j].at = "searching"
    /\ remainingEssays[j].url \in FailingUrls
    /\ LET s == MarkEssayProcessed(state, remainingEssays[j], <<>>)
       IN  /\ state' = s
           /\ wr' = StartBothWrites(j, s)
    /\ members' = [members EXCEPT ![j].at = "recording", ![j].failed = TRUE]
    /\ UNCHANGED <<pc, batchSize, disk, remainingEssays, i, searchCalls,
                   loaded, resolved, writeFailed, runs, delayedAt,
                   returned, search>>

\* a write settles: the file holds its text, or, when another write of the
\* same file is in progress, possibly an interleaving of the two texts
WriteDone(k, f) ==
    /\ wr[k][f].phase = "inflight"
    /\ \E content \in {wr[k][f].text} \cup
                      (IF InFlight(f) # {k} THEN {Torn} ELSE {}) :
           disk' = [disk EXCEPT ![f] = content]
    /\ wr' = [wr EXCEPT ![k][f] = Settled]
    /\ UNCHANGED <<pc, batchSize, state, remainingEssays, i, members,
                   searchCalls, loaded, resolved, writeFailed, runs, delayedAt,
                   returned, search>>

\* saves without a catch block: the promise of the save never resolves
WriteFailsUncaught(k, f) ==
    /\ wr[k][f].phase = "inflight"
    /\ wr' = [wr EXCEPT ![k][f] = NoWrite]
    /\ writeFailed' = TRUE
    /\ UNCHANGED <<pc, batchSize, state, disk, remainingEssays, i, members,
                   searchCalls, loaded, resolved, runs, delayedAt,
                   returned, search>>

\* a write is rejected (the file could not be opened): saveProgress and
\* saveResults log the error and resolve
WriteFails(k, f) ==
    /\ wr[k][f].phase = "inflight"
    /\ wr' = [wr EXCEPT ![k][f] = Settled]
    /\ writeFailed' = TRUE
    /\ UNCHANGED <<pc, batchSize, state, disk, remainingEssays, i, members,
                   searchCalls, loaded, resolved, runs, delayedAt,
                   returned, search>>

\* member j: Promise.all of the two saves has resolved, markEssayProcessed
\* returns and the member's promise resolves
Recorded(j) ==
    /\ j \in DOMAIN members
    /\ members[j].at = "recording"
    /\ \A f \in Files : IsSettled(wr[j][f])
    /\ members' = [members EXCEPT ![j].at = "done"]
    /\ wr' = [wr EXCEPT ![j] = [f \in Files |-> NoWrite]]
    /\ resolved' = resolved \cup {remainingEssays[j].title}
    /\ UNCHANGED <<pc, batchSize, state, disk, remainingEssays, i,
                   searchCalls, loaded, writeFailed, runs, delayedAt,
                   returned, search>>

\* a batch loop that does not await Promise.all(batchPromises)
BatchDoneEarly ==
    /\ pc = "wait"
    /\ IF NumLess(NumAdd(i, batchSize), Len(remainingEssays))
       THEN pc' = "delay" /\ i' = i /\ delayedAt' = delayedAt \cup {i.v}
       ELSE pc' = "loop" /\ i' = NumAdd(i, batchSize) /\ delayedAt' = delayedAt
    /\ UNCHANGED <<batchSize, state, disk, wr, remainingEssays, members,
                   searchCalls, loaded, resolved, writeFailed, runs,
                   returned, search>>

\* a batch loop that waits after every batch, the last one too
BatchDoneAlwaysDelays ==
    /\ pc = "wait"
    /\ \A j \in BatchPositions : members[j].at = "done"
    /\ pc' = "delay" /\ i' = i /\ delayedAt' = delayedAt \cup {i.v}
    /\ UNCHANGED <<batchSize, state, disk, wr, remainingEssays, members,
                   searchCalls, loaded, resolved, writeFailed, runs,
                   returned, search>>

\* Promise.all(batchPromises) has resolved; the delay is started or skipped
BatchDone ==
    /\ pc = "wait"
    /\ \A j \in BatchPositions : members[j].at = "done"
    /\ IF NumLess(NumAdd(i, batchSize), Len(remainingEssays))
       THEN pc' = "delay" /\ i' = i /\ delayedAt' = delayedAt \cup {i.v}
       ELSE pc' = "loop" /\ i' = NumAdd(i, batchSize) /\ delayedAt' = delayedAt
    /\ UNCHANGED <<batchSize, state, disk, wr, remainingEssays, members,
                   searchCalls, loaded, resolved, writeFailed, runs,
                   returned, search>>

\* the delay between batches has elapsed: i += batchSize
DelayDone ==
    /\ pc = "delay"
    /\ i' = NumAdd(i, batchSize)
    /\ pc' = "loop"
    /\ UNCHANGED <<batchSize, state, disk, wr, remainingEssays, members,
                   searchCalls, loaded, resolved, writeFailed, runs, delayedAt,
                   returned, search>>

\* main: the report files are written, markCompleted runs to its await
ReportSaved ==
    /\ pc = "report"
    /\ state' = MarkCompleted(state)
    /\ wr' = StartProgressWrite(0, MarkCompleted(state))
    /\ pc' = "completing"
    /\ UNCHANGED <<batchSize, disk, remainingEssays, i, members, searchCalls,
                   loaded, resolved, writeFailed, runs, delayedAt,
                   returned, search>>

\* a catch block of main that cleans the session up before it exits
ReportFailsCleansUp ==
    /\ pc = "report"
    /\ pc' = "exited"
    /\ disk' = [disk EXCEPT !["progress"] = Absent]
    /\ ProcessEnds
    /\ UNCHANGED <<runs, returned, search>>

\* main: writing the report files throws; catch, process.exit(1)
ReportFails ==
    /\ pc = "report"
    /\ pc' = "exited"
    /\ ProcessEnds
    /\ UNCHANGED <<disk, runs, returned, search>>

\* a markCompleted that removes the results file as well
UnlinkedWithResults ==
    /\ pc = "completing"
    /\ IsSettled(wr[0]["progress"])
    /\ disk' = [f \in Files |-> Absent]
    /\ pc' = "finished"
    /\ ProcessEnds
    /\ UNCHANGED <<runs, returned, search>>

\* markCompleted: saveProgress has settled, fs.unlink(progressFile); main
\* prints its summary and the process ends
Unlinked ==
    /\ pc = "completing"
    /\ IsSettled(wr[0]["progress"])
    /\ disk' = [disk EXCEPT !["progress"] = Absent]
    /\ pc' = "finished"
    /\ ProcessEnds
    /\ UNCHANGED <<runs, returned, search>>

\* markCompleted: fs.unlink(progressFile) is rejected while the file exists;
\* the catch block warns, main prints its summary and the process ends
UnlinkFails ==
    /\ pc = "completing"
    /\ IsSettled(wr[0]["progress"])
    /\ disk["progress"] # Absent
    /\ pc' = "finished"
    /\ ProcessEnds
    /\ UNCHANGED <<disk, runs, returned, search>>

\* what a kill of the process leaves in file f: fs.writeFile truncates the
\* file and then writes the text, so a file with a write in progress is
\* left as it was or partly written
CrashLeaves(f) == {disk[f]} \cup (IF InFlight(f) # {} THEN {Torn} ELSE {})

\* the process is killed; memory is lost
Crash ==
    /\ pc \in Running
    /\ \E progress \in CrashLeaves("progress"),
          results \in CrashLeaves("results") :
           disk' = [f \in Files |->
                       IF f = "progress" THEN progress ELSE results]
    /\ pc' = "dead"
    /\ ProcessEnds
    /\ UNCHANGED <<runs, returned, search>>

Next ==
    \/ \E resume \in BOOLEAN, arg \in BatchSizeOptions,
          page \in Pages : MainStart(resume, arg, page)
    \/ Seeded
    \/ SkipSearch
    \/ StartSearch
    \/ LaunchBatch
    \/ ReturnResults
    \/ \E j \in DOMAIN members : SearchResolves(j)
    \/ \E k \in Writers, f \in Files : WriteDone(k, f)
    \/ \E k \in Writers, f \in Files : WriteFails(k, f)
    \/ \E j \in DOMAIN members : Recorded(j)
    \/ BatchDone
    \/ DelayDone
    \/ ReportSaved
    \/ ReportFails
    \/ Unlinked
    \/ UnlinkFails
    \/ Crash

Spec == Init /\ [][Next]_vars

(***************************************************************************)
(* One launch of the program that is not killed, from its start to the     *)
(* return of processEssaysInParallel, on a new session or on a session     *)
(* that an earlier, killed, launch left behind.                            *)
(***************************************************************************)
RECURSIVE RecordFrom(_, _, _)
\* the state after markEssayProcessed for the essays of s at the positions
\* k, k + 1, ... that are in done
RecordFrom(s, done, k) ==
    IF k > Len(s.essays) THEN s
    ELSE RecordFrom(
             IF k \in done
             THEN MarkEssayProcessed(s, s.essays[k],
                      CHOOSE posts \in SearchOutcomes(s.essays[k]) : TRUE)
             ELSE s,
             done, k + 1)

\* the progress files a killed launch leaves behind: the essays of a page,
\* some of them processed
Checkpoints ==
    {Json(RecordFrom(InitializeEssays(NewState, ScrapeEssays(page)), done, 1)) :
        page \in Pages, done \in SUBSET (1..MaxEssays)}

RunInit ==
    /\ pc = "init"
    /\ batchSize = Num(DefaultBatchSize)
    /\ state = NewState
    /\ \E progress \in Checkpoints \cup {Absent} :
           disk = [f \in Files |->
               IF f = "progress" THEN progress
               ELSE IF progress.kind = "json" THEN Json(progress.data.results)
               ELSE Absent]
    /\ wr = NoWrites
    /\ remainingEssays = <<>>
    /\ i = Num(0)
    /\ members = <<>>
    /\ searchCalls = {}
    /\ loaded = <<>>
    /\ resolved = {}
    /\ writeFailed = FALSE
    /\ runs = 0
    /\ delayedAt = {}
    /\ returned = NoCall
    /\ search = NoSearch

\* the steps the process takes by itself up to the return of
\* processEssaysInParallel, with searches that succeed and searches that fail
Step ==
    \/ Seeded
    \/ SkipSearch
    \/ StartSearch
    \/ LaunchBatch
    \/ ReturnResults
    \/ \E j \in DOMAIN members : SearchResolves(j)
    \/ \E j \in DOMAIN members : SearchFails(j)
    \/ \E k \in Writers, f \in Files : WriteDone(k, f)
    \/ \E k \in Writers, f \in Files : WriteFails(k, f)
    \/ \E j \in DOMAIN members : Recorded(j)
    \/ BatchDone
    \/ DelayDone

RunNext ==
    \/ \E resume \in BOOLEAN, arg \in BatchSizeOptions,
          page \in Pages : MainStart(resume, arg, page)
    \/ Step

\* every request and every file operation settles, every timer fires, and
\* the event loop runs every callback that is ready
LiveSpec == RunInit /\ [][RunNext]_vars /\ WF_vars(Step)

(***************************************************************************)
(* One call of processEssaysInParallel on a longer list: a new session is  *)
(* seeded with n essays and searched in batches of w >= 1.                 *)
(***************************************************************************)
LoopInit ==
    /\ \E n \in 0..MaxRemaining, w \in 1..MaxWidth :
           LET seeded == InitializeEssays(NewState,
                                          ScrapeEssays(PageOf(n, "plain")))
           IN  /\ batchSize = Num(w)
               /\ state = seeded
               /\ wr = [NoWrites EXCEPT ![0]["progress"] =
                                             Pending(Json(seeded))]
    /\ pc = "seeding"
    /\ disk = [f \in Files |-> Absent]
    /\ remainingEssays = <<>>
    /\ i = Num(0)
    /\ members = <<>>
    /\ searchCalls = {}
    /\ loaded = <<>>
    /\ resolved = {}
    /\ writeFailed = FALSE
    /\ runs = 1
    /\ delayedAt = {}
    /\ returned = NoCall
    /\ search = NoSearch

LoopSpec == LoopInit /\ [][Step]_vars

(***************************************************************************)
(* The methods of ProgressTracker, called one after the other by a caller  *)
(* that awaits each call: loadSession, initializeEssays,                   *)
(* markEssayProcessed and getStats.                                        *)
(***************************************************************************)
\* the value JSON.parse gives for the text null
JsonNull == [jsonNull |-> TRUE]

\* progress files that hold well-formed JSON no saveProgress has written:
\* the text null, and an object of another shape
ForeignFiles == {Json(JsonNull), Json([other |-> 1])}

\* the fields of the state the constructor builds
StateFields ==
    {"essays", "processedEssays", "results", "currentIndex", "completed"}

IsSessionState(data) == StateFields \subseteq DOMAIN data

\* loadSession: the line it logs.  The template of "Loaded session" reads
\* state.processedEssays.length and state.essays.length inside the try, after
\* tracker.state has been assigned: a value without these lists ends in the
\* catch block
LoadSessionLog(file) ==
    IF /\ file.kind = "json"
       /\ {"processedEssays", "essays"} \subseteq DOMAIN file.data
    THEN "Loaded session" ELSE "Could not load session, starting fresh"

RECURSIVE Decimal(_)
\* the decimal digits of a natural number
Decimal(n) ==
    IF n < 10 THEN <<DigitChars[n + 1]>>
    ELSE Append(Decimal(n \div 10), DigitChars[(n % 10) + 1])

\* a toFixed(1) that cuts the digits after the first decimal off
ToFixed1Truncating(a, b) ==
    LET tenths == (10 * a) \div b
    IN  Decimal(tenths \div 10) \o <<".">> \o Decimal(tenths % 10)

\* (a / b).toFixed(1) for naturals a and b > 0: the nearest number of tenths,
\* the larger one of two nearest; the quotients of the lists followed here lie
\* far enough from a tie for the double to round as the exact quotient does
ToFixed1(a, b) ==
    LET tenths == (20 * a + b) \div (2 * b)
    IN  Decimal(tenths \div 10) \o <<".">> \o Decimal(tenths % 10)

\* a string value
Text(chars) == [text |-> chars]

\* getStats
GetStats(s) ==
    LET processed == Len(s.processedEssays)
        total == IF s.totalEssays \in {Undefined, 0}
                 THEN Len(s.essays) ELSE s.totalEssays
    IN  [processed |-> processed,
         total |-> total,
         percentage |-> IF total > 0
                        THEN Text(ToFixed1(100 * processed, total))
                        ELSE Num(0),
         remaining |-> total - processed,
         hasResults |-> DOMAIN s.results # {}]

\* the essay lists handed to initializeEssays
SeedPages ==
    {PageOf(n, "plain") : n \in 0..MaxSeeded}
        \cup {PageOf(n, "sameTitle") : n \in 2..MaxSeeded}

TrackerInit ==
    /\ pc = "caller"
    /\ batchSize = Num(DefaultBatchSize)
    /\ state = NewState
    /\ \E progress \in {Absent, Torn} \cup ForeignFiles :
           disk = [f \in Files |-> IF f = "progress" THEN progress ELSE Absent]
    /\ wr = NoWrites
    /\ remainingEssays = <<>>
    /\ i = Num(0)
    /\ members = <<>>
    /\ searchCalls = {}
    /\ loaded = <<>>
    /\ resolved = {}
    /\ writeFailed = FALSE
    /\ runs = 0
    /\ delayedAt = {}
    /\ returned = NoCall
    /\ search = NoSearch

\* what a write of text to file f, awaited alone, leaves: the text, or the
\* file as it was when the write is rejected
Written(f, text) == {text, disk[f]}

\* await ProgressTracker.loadSession(sessionId)
CallLoadSession ==
    /\ pc = "caller"
    /\ state' = LoadSession(disk["progress"])
    /\ returned' = [op |-> "loadSession", file |-> disk["progress"],
                    log |-> LoadSessionLog(disk["progress"])]
    /\ UNCHANGED <<pc, batchSize, disk, wr, remainingEssays, i, members,
                   searchCalls, loaded, resolved, writeFailed, runs, delayedAt,
                   search>>

\* await tracker.initializeEssays(essays), as main calls it: on a tracker
\* without essays
CallInitializeEssays(page) ==
    /\ pc = "caller"
    /\ IsSessionState(state)
    /\ Len(state.essays) = 0
    /\ LET s == InitializeEssays(state, ScrapeEssays(page))
       IN  /\ state' = s
           /\ \E progress \in Written("progress", Json(s)) :
                  disk' = [disk EXCEPT !["progress"] = progress]
    /\ returned' = [op |-> "initializeEssays"]
    /\ UNCHANGED <<pc, batchSize, wr, remainingEssays, i, members,
                   searchCalls, loaded, resolved, writeFailed, runs, delayedAt,
                   search>>

\* await tracker.markEssayProcessed(essay, posts), as the batch runner calls
\* it: on an essay of getRemainingEssays
CallMarkEssayProcessed(k) ==
    /\ pc = "caller"
    /\ IsSessionState(state)
    /\ k \in DOMAIN GetRemainingEssays(state)
    /\ LET essay == GetRemainingEssays(state)[k]
       IN  \E posts \in SearchOutcomes(essay) :
               LET s == MarkEssayProcessed(state, essay, posts)
               IN  /\ state' = s
                   /\ \E progress \in Written("progress", Json(s)),
                         results \in Written("results", Json(s.results)) :
                          disk' = [f \in Files |->
                              IF f = "progress" THEN progress ELSE results]
    /\ returned' = [op |-> "markEssayProcessed"]
    /\ UNCHANGED <<pc, batchSize, wr, remainingEssays, i, members,
                   searchCalls, loaded, resolved, writeFailed, runs, delayedAt,
                   search>>

\* tracker.getStats()
CallGetStats ==
    /\ pc = "caller"
    /\ IsSessionState(state)
    /\ returned' = [op |-> "getStats", stats |-> GetStats(state)]
    /\ UNCHANGED <<pc, batchSize, state, disk, wr, remainingEssays, i,
                   members, searchCalls, loaded, resolved, writeFailed, runs,
                   delayedAt, search>>

TrackerNext ==
    \/ CallLoadSession
    \/ \E page \in SeedPages : CallInitializeEssays(page)
    \/ \E k \in 1..MaxSeeded : CallMarkEssayProcessed(k)
    \/ CallGetStats

TrackerSpec == TrackerInit /\ [][TrackerNext]_vars

(***************************************************************************)
(* searchHackerNewsForEssay, called on its own.  Strings are sequences of  *)
(* characters; a field of a hit that may be missing is None or Some(v).    *)
(***************************************************************************)
None == [some |-> FALSE]

Some(v) == [some |-> TRUE, v |-> v]

UpperCaseLetters ==
    <<"A", "B", "C", "D", "E", "F", "G", "H", "I", "J", "K", "L", "M", "N",
      "O", "P", "Q", "R", "S", "T", "U", "V", "W", "X", "Y", "Z">>

LowerCaseLetters ==
    <<"a", "b", "c", "d", "e", "f", "g", "h", "i", "j", "k", "l", "m", "n",
      "o", "p", "q", "r", "s", "t", "u", "v", "w", "x", "y", "z">>

\* String.prototype.toLowerCase
ToLowerCase(str) ==
    [k \in DOMAIN str |->
        IF \E n \in DOMAIN UpperCaseLetters : UpperCaseLetters[n] = str[k]
        THEN LowerCaseLetters[CHOOSE n \in DOMAIN UpperCaseLetters :
                                  UpperCaseLetters[n] = str[k]]
        ELSE str[k]]

\* str.includes(part)
Includes(str, part) ==
    \E k \in 0..(Len(str) - Len(part)) : SubSeq(str, k + 1, k + Len(part)) = part

\* scrapeEssays: the prefix of essay.url
SiteUrl ==
    <<"h", "t", "t", "p", "s", ":", "/", "/", "w", "w", "w", ".", "p", "a",
      "u", "l", "g", "r", "a", "h", "a", "m", ".", "c", "o", "m", "/">>

\* the literal of the third test of the filter
DomainSlash ==
    <<"p", "a", "u", "l", "g", "r", "a", "h", "a", "m", ".", "c", "o", "m",
      "/">>

\* the literal of the fourth query
SiteQuery ==
    <<"s", "i", "t", "e", ":", "p", "a", "u", "l", "g", "r", "a", "h", "a",
      "m", ".", "c", "o", "m", " ">>

DotHtml == <<".", "h", "t", "m", "l">>

\* scrapeEssays: the essay of a link with text title to slug.html
Essay(title, slug) ==
    [title |-> title, url |-> SiteUrl \o slug \o DotHtml, slug |-> slug]

\* the essays searched for
SearchEssays == {Essay(<<"A", "b">>, <<"a", "b">>)}

\* the five queries of one search
Queries(essay) ==
    <<essay.title,
      <<"\"">> \o essay.title \o <<"\"">>,
      essay.url,
      SiteQuery \o essay.title,
      essay.slug>>

\* a hit of the search service
Hit(id, title, url, text, points) ==
    [objectID |-> id, title |-> title, url |-> url, story_text |-> text,
     points |-> points]

\* the stories the search service holds that some query for the essay finds:
\* one with the essay's title in other letter case, one linking the essay,
\* one linking it without www, one quoting its URL in the text, one linking
\* it with the host in other letter case, one about something else, and one
\* without title, URL, text and points
HTitle(essay) ==
    Hit(1, Some(<<"o", "n", " ">> \o ToLowerCase(essay.title) \o <<"!">>),
        None, None, Some(3))

HUrl(essay) == Hit(2, Some(<<"z">>), Some(essay.url), None, Some(5))

HSite(essay) ==
    Hit(3, None,
        Some(<<"h", "t", "t", "p", ":", "/", "/">> \o DomainSlash
                 \o essay.slug \o DotHtml),
        None, None)

HBody(essay) ==
    Hit(4, Some(<<"z">>), None, Some(<<"s", "e", "e", " ">> \o essay.url),
        Some(5))

HHostCase(essay) ==
    Hit(5, Some(<<"z">>),
        Some(<<"h", "t", "t", "p", "s", ":", "/", "/", "w", "w", "w", ".",
               "P", "a", "u", "l", "G", "r", "a", "h", "a", "m", ".", "c",
               "o", "m", "/">> \o essay.slug \o DotHtml),
        None, Some(9))

HOther == Hit(6, Some(<<"z">>), Some(<<"h", "t", "t", "p", ":", "/", "/", "x">>),
              None, Some(7))

HBare == Hit(7, None, None, None, None)

\* axios.get is rejected
Rejected == [ok |-> FALSE]

\* axios.get resolves with a response whose data.hits is hits
Reply(hits) == [ok |-> TRUE, hits |-> hits]

\* what the service answers to one query: nothing (the request fails), a
\* response without hits, a page of hits, or a page with a null in it
Responses(essay) ==
    {Rejected,
     Reply(None),
     Reply(Some(<<HUrl(essay), HTitle(essay), HHostCase(essay), HOther>>)),
     Reply(Some(<<HSite(essay), HBody(essay), HBare>>)),
     Reply(Some(<<JsonNull>>))}

\* the filter predicate without toLowerCase on the hit's title
RelevantCaseSensitive(hit, essay) ==
    LET title == IF hit.title.some THEN hit.title.v ELSE <<>>
        url == IF hit.url.some THEN hit.url.v ELSE <<>>
    IN  \/ Includes(title, essay.title)
        \/ Includes(url, essay.url)
        \/ Includes(url, DomainSlash \o essay.slug)
        \/ hit.story_text.some /\ Includes(hit.story_text.v, essay.url)

\* the predicate of allResults.filter
Relevant(hit, essay) ==
    LET title == ToLowerCase(IF hit.title.some THEN hit.title.v ELSE <<>>)
        url == IF hit.url.some THEN hit.url.v ELSE <<>>
        essayTitle == ToLowerCase(essay.title)
    IN  \/ Includes(title, essayTitle)
        \/ Includes(url, essay.url)
        \/ Includes(url, DomainSlash \o essay.slug)
        \/ hit.story_text.some /\ Includes(hit.story_text.v, essay.url)

\* the object of .map((hit) => ...): hn_url is built from objectID, and
\* num_comments, created_at and author are copied like title and url
ToPost(hit) ==
    [id |-> hit.objectID, title |-> hit.title, url |-> hit.url,
     points |-> IF hit.points.some THEN hit.points.v ELSE 0]

\* self.findIndex((p) => p.id === id)
FindIndexById(posts, id) == CHOOSE k \in DOMAIN posts :
    /\ posts[k].id = id
    /\ \A m \in 1..(k - 1) : posts[m].id # id

\* posts.filter((post, index, self) => index === self.findIndex(...))
KeepFirstById(posts) ==
    LET kept == {k \in DOMAIN posts : FindIndexById(posts, posts[k].id) = k}
        nth(n) == CHOOSE k \in kept : Cardinality({m \in kept : m < k}) = n - 1
    IN  [n \in 1..Cardinality(kept) |-> posts[nth(n)]]

\* a sort that puts the posts in ascending order of points
SortByPointsAscending(posts) ==
    LET before(a, b) ==
            \/ posts[a].points < posts[b].points
            \/ posts[a].points = posts[b].points /\ a < b
        nth(n) == CHOOSE k \in DOMAIN posts :
            Cardinality({m \in DOMAIN posts : before(m, k)}) = n - 1
    IN  [n \in DOMAIN posts |-> posts[nth(n)]]

\* posts.sort((a, b) => b.points - a.points): Array.prototype.sort is stable
SortByPoints(posts) ==
    LET before(a, b) ==
            \/ posts[a].points > posts[b].points
            \/ posts[a].points = posts[b].points /\ a < b
        nth(n) == CHOOSE k \in DOMAIN posts :
            Cardinality({m \in DOMAIN posts : before(m, k)}) = n - 1
    IN  [n \in DOMAIN posts |-> posts[nth(n)]]

\* hit.title of a null hit raises a TypeError
FilterThrows(allResults) == \E k \in DOMAIN allResults : allResults[k] = JsonNull

\* relevantPosts
RelevantPosts(allResults, essay) ==
    LET accepted == SelectSeq(allResults, LAMBDA hit : Relevant(hit, essay))
        posts == [k \in DOMAIN accepted |-> ToPost(accepted[k])]
    IN  SortByPoints(KeepFirstById(posts))

\* searchHackerNewsForEssay after its last query: the result it returns,
\* [] from the outer catch block when the filter has thrown
Finished(sr) ==
    [sr EXCEPT !.at = "done",
               !.calls = @ + 1,
               !.threw = FilterThrows(sr.allResults),
               !.previous = IF sr.calls > 0 THEN Some(sr.results) ELSE None,
               !.results = IF FilterThrows(sr.allResults) THEN <<>>
                           ELSE RelevantPosts(sr.allResults, sr.essay)]

\* the for loop goes to its next query, or ends
NextQuery(sr) ==
    IF sr.k < Len(Queries(sr.essay))
    THEN [sr EXCEPT !.at = "request", !.k = @ + 1,
                    !.issued = Append(@, Queries(sr.essay)[sr.k + 1])]
    ELSE Finished(sr)

SearchInit ==
    /\ pc = "client"
    /\ batchSize = Num(DefaultBatchSize)
    /\ state = NewState
    /\ disk = [f \in Files |-> Absent]
    /\ wr = NoWrites
    /\ remainingEssays = <<>>
    /\ i = Num(0)
    /\ members = <<>>
    /\ searchCalls = {}
    /\ loaded = <<>>
    /\ resolved = {}
    /\ writeFailed = FALSE
    /\ runs = 0
    /\ delayedAt = {}
    /\ returned = NoCall
    /\ search = NoSearch

\* searchHackerNewsForEssay(essay) is called, to its first await; service is
\* what the search service answers to each of the five queries
CallSearch(essay, service) ==
    /\ pc = "client"
    /\ search.at = "idle"
    /\ search' = [at |-> "request", essay |-> essay, service |-> service,
                  k |-> 1, allResults |-> <<>>,
                  issued |-> <<Queries(essay)[1]>>, delays |-> 0,
                  calls |-> 0, threw |-> FALSE, results |-> <<>>,
                  previous |-> None, recordedAt |-> 0]
    /\ UNCHANGED <<pc, batchSize, state, disk, wr, remainingEssays, i,
                   members, searchCalls, loaded, resolved, writeFailed, runs,
                   delayedAt, returned>>

\* a repeated call that leaves out the first query
CallSearchAgainShort ==
    /\ pc = "client"
    /\ search.at = "done"
    /\ search.calls < MaxCalls
    /\ search' = [search EXCEPT !.at = "request", !.k = 2,
                                !.allResults = <<>>,
                                !.issued = <<Queries(search.essay)[2]>>,
                                !.delays = 0]
    /\ UNCHANGED <<pc, batchSize, state, disk, wr, remainingEssays, i,
                   members, searchCalls, loaded, resolved, writeFailed, runs,
                   delayedAt, returned>>

\* searchHackerNewsForEssay is called again for the same essay, and the
\* service answers as before
CallSearchAgain ==
    /\ pc = "client"
    /\ search.at = "done"
    /\ search.calls < MaxCalls
    /\ search' = [search EXCEPT !.at = "request", !.k = 1,
                                !.allResults = <<>>,
                                !.issued = <<Queries(search.essay)[1]>>,
                                !.delays = 0]
    /\ UNCHANGED <<pc, batchSize, state, disk, wr, remainingEssays, i,
                   members, searchCalls, loaded, resolved, writeFailed, runs,
                   delayedAt, returned>>

\* axios.get resolves: the hits of the response, if it has any, are pushed
\* and the delay of 100 ms is started
RequestResolves ==
    /\ search.at = "request"
    /\ search.service[search.k].ok
    /\ LET hits == search.service[search.k].hits
       IN  search' = [search EXCEPT
               !.at = "delay",
               !.allResults = IF hits.some THEN @ \o hits.v ELSE @]
    /\ UNCHANGED <<pc, batchSize, state, disk, wr, remainingEssays, i,
                   members, searchCalls, loaded, resolved, writeFailed, runs,
                   delayedAt, returned>>

\* a failed request that ends the loop over the queries
RequestFailsEndsLoop ==
    /\ search.at = "request"
    /\ ~search.service[search.k].ok
    /\ search' = Finished(search)
    /\ UNCHANGED <<pc, batchSize, state, disk, wr, remainingEssays, i,
                   members, searchCalls, loaded, resolved, writeFailed, runs,
                   delayedAt, returned>>

\* axios.get is rejected: the catch block of the query logs the error, and
\* the loop goes on without the delay
RequestFails ==
    /\ search.at = "request"
    /\ ~search.service[search.k].ok
    /\ search' = NextQuery(search)
    /\ UNCHANGED <<pc, batchSize, state, disk, wr, remainingEssays, i,
                   members, searchCalls, loaded, resolved, writeFailed, runs,
                   delayedAt, returned>>

\* the delay after a query has elapsed
DelayElapsed ==
    /\ search.at = "delay"
    /\ search' = NextQuery([search EXCEPT !.delays = @ + 1])
    /\ UNCHANGED <<pc, batchSize, state, disk, wr, remainingEssays, i,
                   members, searchCalls, loaded, resolved, writeFailed, runs,
                   delayedAt, returned>>

\* the caller hands the result of the search to the tracker, as a batch
\* member does: await tracker.markEssayProcessed(essay, posts), with both
\* saves written
RecordSearch ==
    /\ pc = "client"
    /\ search.at = "done"
    /\ search.recordedAt = 0
    /\ LET s == MarkEssayProcessed(state, search.essay, search.results)
       IN  /\ state' = s
           /\ disk' = [f \in Files |->
                  IF f = "progress" THEN Json(s) ELSE Json(s.results)]
    /\ search' = [search EXCEPT !.recordedAt = search.calls]
    /\ UNCHANGED <<pc, batchSize, wr, remainingEssays, i, members,
                   searchCalls, loaded, resolved, writeFailed, runs, delayedAt,
                   returned>>

SearchNext ==
    \/ \E essay \in SearchEssays :
           \E service \in [DOMAIN Queries(essay) -> Responses(essay)] :
               CallSearch(essay, service)
    \/ CallSearchAgain
    \/ RequestResolves
    \/ RequestFails
    \/ DelayElapsed
    \/ RecordSearch

SearchSpec == SearchInit /\ [][SearchNext]_vars

(***************************************************************************)
(* SessionsSpec: the sessions of one working directory.  The program is    *)
(* launched again and again in the same directory; every launch is         *)
(* followed from the command line to the seed, and a session that reaches  *)
(* the end of main is completed.  The directory is the files named after   *)
(* the sessions: state maps every session id a tracker was constructed     *)
(* with to its state, disk every file name to the file.                    *)
(***************************************************************************)
ProgressPrefix == <<"p", "r", "o", "g", "r", "e", "s", "s", "-">>

DotJson == <<".", "j", "s", "o", "n">>

\* str.startsWith(part)
StartsWith(str, part) ==
    Len(part) <= Len(str) /\ SubSeq(str, 1, Len(part)) = part

\* str.endsWith(part)
EndsWith(str, part) ==
    /\ Len(part) <= Len(str)
    /\ SubSeq(str, Len(str) - Len(part) + 1, Len(str)) = part

\* str.indexOf(part), for a part that occurs in str
IndexOf(str, part) ==
    CHOOSE k \in 0..(Len(str) - Len(part)) :
        /\ SubSeq(str, k + 1, k + Len(part)) = part
        /\ \A j \in 0..(k - 1) : SubSeq(str, j + 1, j + Len(part)) # part

\* str.replace(part, ""): the first occurrence of part is taken out
RemoveFirst(str, part) ==
    IF Includes(str, part)
    THEN LET k == IndexOf(str, part)
         IN  SubSeq(str, 1, k) \o SubSeq(str, k + Len(part) + 1, Len(str))
    ELSE str

\* new Date().toISOString() at clock reading t, cut down to the hour, the
\* minutes and the tenths: hh:mm.tZ
ToISOString(t) ==
    <<"T", "0", DigitChars[t + 1], ":", "0", "0", ".", "0", "Z">>

\* str.replace(/[:.]/g, "-")
DashColonsAndDots(str) ==
    [k \in DOMAIN str |-> IF str[k] \in {":", "."} THEN "-" ELSE str[k]]

\* constructor: the session id of a tracker constructed without one
SessionIdAt(t) == DashColonsAndDots(ToISOString(t))

\* constructor: this.progressFile
ProgressFile(sessionId) == ProgressPrefix \o sessionId \o DotJson

\* the session ids typed after --resume
GivenIds == {<<"a", ".", "j", "s", "o", "n", ".", "b">>}

\* the session ids a tracker can be constructed with: those of the clock,
\* those typed, and those listSessions makes of their progress files
SessionIds ==
    LET made == {SessionIdAt(t) : t \in 1..MaxClock} \cup GivenIds
    IN  made \cup {RemoveFirst(id \o DotJson, DotJson) : id \in made}

\* npm's file of the project, in the working directory of every run
PackageJson == <<"p", "a", "c", "k", "a", "g", "e", ".", "j", "s", "o", "n">>

\* the files of the working directory that are followed: the progress files
\* and package.json.  The results files are left out, listSessions drops
\* them by the test that drops package.json
DirNames == {ProgressFile(id) : id \in SessionIds} \cup {PackageJson}

\* constructor: this.state, as far as the directory depends on it
SessionState(sessionId) == [sessionId |-> sessionId, completed |-> FALSE]

RECURSIVE Orders(_)
\* fs.readdir("."): the names of a directory in every order
Orders(names) ==
    IF names = {} THEN {<<>>}
    ELSE UNION {{<<n>> \o rest : rest \in Orders(names \ {n})} : n \in names}

RECURSIVE ProgressIds(_)
\* listSessions: filter the progress files, map them to the session ids
ProgressIds(files) ==
    IF files = <<>> THEN <<>>
    ELSE LET file == Head(files)
         IN  IF StartsWith(file, ProgressPrefix) /\ EndsWith(file, DotJson)
             THEN <<RemoveFirst(RemoveFirst(file, ProgressPrefix), DotJson)>>
                      \o ProgressIds(Tail(files))
             ELSE ProgressIds(Tail(files))

\* listSessions; a readdir that is rejected gives the empty list
ListSessions(listing) ==
    IF listing.some THEN ProgressIds(listing.v) ELSE <<>>

\* what fs.readdir(".") resolves with, or None when it is rejected
Listings ==
    {Some(order) : order \in Orders({f \in DirNames : disk[f] # Absent})}
        \cup {None}

\* the entry code: the session id handed to main by --resume without an id
LatestSession(sessions) ==
    IF Len(sessions) = 0 THEN None ELSE Some(sessions[Len(sessions)])

SessionsInit ==
    /\ pc = "shell"
    /\ batchSize = Num(DefaultBatchSize)
    /\ state = EmptyMap
    /\ disk = [f \in DirNames |->
                  IF f = PackageJson THEN Json([name |-> "pg-scraper"])
                  ELSE Absent]
    /\ wr = NoWrites
    /\ remainingEssays = <<>>
    /\ i = Num(0)
    /\ members = <<>>
    /\ searchCalls = {}
    /\ loaded = <<>>
    /\ resolved = {}
    /\ writeFailed = FALSE
    /\ runs = 0
    /\ delayedAt = {}
    /\ returned = NoCall
    /\ search = NoSearch

\* main(null, ...): a tracker with a session id of its own is constructed and
\* seeded
MainFresh ==
    /\ runs < MaxClock
    /\ LET sessionId == SessionIdAt(runs + 1)
           file == ProgressFile(sessionId)
       IN  /\ state' = Put(state, sessionId, SessionState(sessionId))
           /\ disk' = [disk EXCEPT ![file] = Json(SessionState(sessionId))]
    /\ runs' = runs + 1

\* main(sessionId, ...): loadSession, and the seed when no state was loaded
MainResume(sessionId) ==
    LET file == ProgressFile(sessionId)
    IN  IF disk[file] # Absent
        THEN /\ state' = Put(state, sessionId, disk[file].data)
             /\ disk' = disk
        ELSE /\ state' = Put(state, sessionId, SessionState(sessionId))
             /\ disk' = [disk EXCEPT
                            ![file] = Json(SessionState(sessionId))]

\* node index.js
RunFresh ==
    /\ pc = "shell"
    /\ MainFresh
    /\ UNCHANGED <<pc, batchSize, wr, remainingEssays, i, members,
                   searchCalls, loaded, resolved, writeFailed, delayedAt,
                   returned, search>>

\* node index.js --resume <sessionId>
RunResume(sessionId) ==
    /\ pc = "shell"
    /\ MainResume(sessionId)
    /\ UNCHANGED <<pc, batchSize, wr, remainingEssays, i, members,
                   searchCalls, loaded, resolved, writeFailed, runs,
                   delayedAt, returned, search>>

\* a run of the session reaches the end of main: markCompleted sets
\* completed and unlinks the progress file (an unlink that is rejected is
\* followed in Spec)
SessionCompletes(sessionId) ==
    /\ pc = "shell"
    /\ sessionId \in DOMAIN state
    /\ ~state[sessionId].completed
    /\ state' = [state EXCEPT ![sessionId].completed = TRUE]
    /\ disk' = [disk EXCEPT ![ProgressFile(sessionId)] = Absent]
    /\ UNCHANGED <<pc, batchSize, wr, remainingEssays, i, members,
                   searchCalls, loaded, resolved, writeFailed, runs,
                   delayedAt, returned, search>>

\* node index.js --list-sessions: listSessions resolves
CallListSessions(listing) ==
    /\ pc = "shell"
    /\ pc' = "listed"
    /\ returned' = [op |-> "listSessions",
                    read |-> listing.some,
                    sessions |-> ListSessions(listing)]
    /\ UNCHANGED <<batchSize, state, disk, wr, remainingEssays, i, members,
                   searchCalls, loaded, resolved, writeFailed, runs,
                   delayedAt, search>>

\* the session ids are printed and the process ends
SessionsPrinted ==
    /\ pc = "listed"
    /\ pc' = "shell"
    /\ returned' = NoCall
    /\ UNCHANGED <<batchSize, state, disk, wr, remainingEssays, i, members,
                   searchCalls, loaded, resolved, writeFailed, runs,
                   delayedAt, search>>

\* node index.js --resume: listSessions resolves and the session to resume
\* is picked
CallResumeLatest(listing) ==
    /\ pc = "shell"
    /\ pc' = "resuming"
    /\ returned' = [op |-> "resume",
                    read |-> listing.some,
                    sessionId |-> LatestSession(ListSessions(listing))]
    /\ UNCHANGED <<batchSize, state, disk, wr, remainingEssays, i, members,
                   searchCalls, loaded, resolved, writeFailed, runs,
                   delayedAt, search>>

\* main(latestSession, ...), or main(null, ...) when no session was found
RunLatest ==
    /\ pc = "resuming"
    /\ IF returned.sessionId.some
       THEN MainResume(returned.sessionId.v) /\ runs' = runs
       ELSE MainFresh
    /\ pc' = "shell"
    /\ returned' = NoCall
    /\ UNCHANGED <<batchSize, wr, remainingEssays, i, members, searchCalls,
                   loaded, resolved, writeFailed, delayedAt, search>>

SessionsNext ==
    \/ RunFresh
    \/ \E sessionId \in GivenIds \cup DOMAIN state : RunResume(sessionId)
    \/ \E sessionId \in DOMAIN state : SessionCompletes(sessionId)
    \/ \E listing \in Listings : CallListSessions(listing)
    \/ SessionsPrinted
    \/ \E listing \in Listings : CallResumeLatest(listing)
    \/ RunLatest

SessionsSpec == SessionsInit /\ [][SessionsNext]_vars

(***************************************************************************)
(* Properties.                                                             *)
(***************************************************************************)
TitlesOf(essays) == {essays[k].title : k \in DOMAIN essays}

NoDuplicates(seq) ==
    \A a, b \in DOMAIN seq : a # b => seq[a] # seq[b]

KeysHaveResults(s) ==
    \A k \in DOMAIN s.processedEssays : s.processedEssays[k] \in DOMAIN s.results

\* every essay of the list is in the processed sequence and has a result
Covered(s) ==
    \A k \in DOMAIN s.essays :
        /\ s.essays[k].title \in Range(s.processedEssays)
        /\ s.essays[k].title \in DOMAIN s.results

PositiveWidth == ~batchSize.nan /\ batchSize.v >= 1

Searching == pc \in {"loop", "wait", "delay"}

InFlightMember(j) == members[j].at \in {"searching", "recording"}

\* C1: after any sequence of markEssayProcessed calls the length of the
\* processed sequence, the counter currentIndex and the number of entries of
\* the results mapping are equal.
CountsAgree ==
    /\ Len(state.processedEssays) = state.currentIndex
    /\ state.currentIndex = Cardinality(DOMAIN state.results)

\* C2: in the state in memory, in every snapshot being written to the
\* progress file and in every snapshot the progress file holds, every key of
\* the processed sequence has an entry in the results mapping.
ProcessedKeysHaveResults ==
    /\ KeysHaveResults(state)
    /\ disk["progress"].kind = "json" => KeysHaveResults(disk["progress"].data)
    /\ \A k \in InFlight("progress") :
           KeysHaveResults(wr[k]["progress"].text.data)

C2Witness ==
    /\ state.processedEssays # <<>>
    /\ disk["progress"].kind = "json"
    /\ disk["progress"].data.processedEssays # <<>>
    /\ InFlight("progress") # {}

\* C3: a run never calls the search for an essay whose title was in the
\* processed sequence it loaded; when the loaded sequence covers the whole
\* list it calls no search at all.
NoSearchOfProcessed ==
    /\ \A essay \in searchCalls : essay.title \notin Range(loaded)
    /\ (pc \in Running /\ TitlesOf(state.essays) \subseteq Range(loaded))
           => searchCalls = {}

C3Witness == loaded # <<>> /\ searchCalls # {}

\* the positions of the essays of s whose title is not in the processed
\* sequence
UnprocessedPositions(s) ==
    {k \in DOMAIN s.essays :
        \A m \in DOMAIN s.processedEssays :
            s.processedEssays[m] # s.essays[k].title}

\* r lists the unprocessed essays of s, each once, in the order of s.essays
IsOrderedDifference(r, s) ==
    /\ Len(r) = Cardinality(UnprocessedPositions(s))
    /\ \A k \in UnprocessedPositions(s) :
           r[Cardinality({m \in UnprocessedPositions(s) : m <= k})] = s.essays[k]

\* C4: getRemainingEssays returns exactly the essays of the list whose title
\* is not in the processed sequence, in the order of the list, and leaves
\* the session state as it was.
RemainingIsOrderedDifference ==
    [][(pc = "check" /\ pc' = "loop")
           => (IsOrderedDifference(remainingEssays', state) /\ state' = state)]_vars

C4Witness ==
    /\ pc = "loop"
    /\ remainingEssays # <<>>
    /\ Len(remainingEssays) < Len(state.essays)

\* C5: the processed sequence never holds a key twice.
ProcessedHasNoDuplicates == NoDuplicates(state.processedEssays)

\* C6: while the batches run and no write has been rejected, a kill of the
\* process leaves a progress file whose processed sequence holds every title
\* whose markEssayProcessed call has resolved.
ResolvedIsDurable ==
    (Searching /\ ~writeFailed) =>
        \A t \in resolved : \A file \in CrashLeaves("progress") :
            file.kind = "json" /\ t \in Range(file.data.processedEssays)

\* C7: no markEssayProcessed call starts while a write of another
\* markEssayProcessed call is in progress.
SingleWriter ==
    [][(\E j \in DOMAIN members \cap DOMAIN members' :
            members[j].at = "searching" /\ members'[j].at = "recording")
           => \A f \in Files : InFlight(f) = {}]_vars

\* C8: with a positive batch size processEssaysInParallel returns in a
\* process that is not killed, and when it returns every essay of the list
\* is in the processed sequence and in the results mapping.
RunnerCompletes ==
    /\ (Searching /\ PositiveWidth) ~> (pc = "report")
    /\ [][(pc = "loop" /\ pc' = "report" /\ PositiveWidth) => Covered(state')]_vars

C8Witness ==
    /\ pc = "report"
    /\ PositiveWidth
    /\ Len(remainingEssays) = MaxEssays
    /\ \A j \in DOMAIN members : members[j].at = "done"

\* C9: the session is marked completed, and its progress file deleted, only
\* when the processed sequence covers the essay list.
CompletedOnlyWhenCovered ==
    (pc = "completing" \/ state.completed) => Covered(state)

Ceil(n, w) == (n + w - 1) \div w

\* the members launched as batch number g
GroupOf(g) == {j \in DOMAIN members : members[j].group = g}

\* the g-th slice of w consecutive positions of a list of n
SliceOf(g, w, n) == ((g - 1) * w + 1)..Min(g * w, n)

\* processEssaysInParallel has returned
RunnerReturned == pc = "report" /\ members # <<>>

BatchesAreSlices ==
    Searching \/ RunnerReturned =>
        LET n == Len(remainingEssays)
            w == batchSize.v
            formed == {members[j].group : j \in DOMAIN members} \ {0}
        IN  /\ formed \subseteq 1..Ceil(n, w)
            /\ \A g \in formed :
                   /\ GroupOf(g) = SliceOf(g, w, n)
                   /\ g > 1 => g - 1 \in formed /\ (g - 2) * w \in delayedAt
            /\ delayedAt \subseteq {(g - 1) * w : g \in formed \ {Ceil(n, w)}}
            /\ RunnerReturned =>
                   /\ formed = 1..Ceil(n, w)
                   /\ Cardinality(delayedAt) = Ceil(n, w) - 1

C11Witness ==
    /\ RunnerReturned
    /\ Len(remainingEssays) = 5
    /\ batchSize = Num(2)
    /\ \A g \in 1..3 : Cardinality(GroupOf(g)) = <<2, 2, 1>>[g]
    /\ Cardinality(delayedAt) = 2

(***************************************************************************)
(* C12: whenever the progress file is missing, is not JSON, or is JSON     *)
(* that is not a session state, loadSession returns a tracker with the     *)
(* fresh state of the constructor.                                         *)
(***************************************************************************)
LoadOfUnreadableIsFresh ==
    returned.op = "loadSession" =>
        (returned.file.kind # "json" \/ ~IsSessionState(returned.file.data)
            => state = NewState)

(***************************************************************************)
(* C13: an essay whose search fails does not end its batch or the run:     *)
(* the run goes on to the return of processEssaysInParallel, where every   *)
(* essay of the list, of the same batch and of later batches, is processed *)
(* and has a result, and the failed essay is processed with a result of no *)
(* posts, total_posts 0 and max_points 0.                                  *)
(***************************************************************************)
FailedMembers == {j \in DOMAIN members : members[j].failed}

RecordedEmpty(essay) ==
    /\ essay.title \in Range(state.processedEssays)
    /\ essay.title \in DOMAIN state.results
    /\ state.results[essay.title].hn_posts = <<>>
    /\ state.results[essay.title].total_posts = 0
    /\ state.results[essay.title].max_points = 0

FailedSearchIsRecorded ==
    (Searching /\ PositiveWidth /\ FailedMembers # {})
        ~> /\ pc = "report"
           /\ Covered(state)
           /\ \A j \in FailedMembers : RecordedEmpty(remainingEssays[j])

C13Witness ==
    /\ pc = "report"
    /\ \E j \in FailedMembers : members[j].group = 1
    /\ \E k \in DOMAIN members : members[k].group = 2 /\ members[k].at = "done"
    /\ Covered(state)

(***************************************************************************)
(* C14: a rejected write of the progress file or of the results file,      *)
(* in initializeEssays or in markEssayProcessed, does not raise: the       *)
(* state in memory keeps the essay list and every recorded essay, the      *)
(* call resolves and the run goes on to the return of                      *)
(* processEssaysInParallel with every essay processed.                     *)
(***************************************************************************)
\* the essays whose markEssayProcessed has run are in the state in memory
MemoryKeepsUpdates ==
    \A j \in DOMAIN members :
        members[j].at \in {"recording", "done"} =>
            /\ remainingEssays[j].title \in Range(state.processedEssays)
            /\ remainingEssays[j].title \in DOMAIN state.results

WriteFailureIsSurvived ==
    /\ [](writeFailed => MemoryKeepsUpdates)
    /\ [][writeFailed' /\ ~writeFailed => state' = state /\ pc' = pc]_vars
    /\ (writeFailed /\ PositiveWidth /\ (pc = "seeding" \/ Searching))
          ~> (pc = "report" /\ writeFailed /\ Covered(state))

C14Witness ==
    /\ pc = "report"
    /\ writeFailed
    /\ state.essays # <<>>
    /\ Covered(state)
    /\ \A f \in Files : disk[f] = Absent

(***************************************************************************)
(* C15: the posts searchHackerNewsForEssay returns are hits of the pool    *)
(* that the filter accepts, no two of them have the same id, and they are  *)
(* in order of non-increasing points.                                      *)
(***************************************************************************)
\* searchHackerNewsForEssay has returned
SearchReturned == search.at = "done"

PoolHits == {h \in Range(search.allResults) : h # JsonNull}

ResultIsFilteredUniqueSorted ==
    SearchReturned =>
        LET posts == search.results
        IN  /\ \A k \in DOMAIN posts :
                   \E hit \in PoolHits :
                       Relevant(hit, search.essay) /\ posts[k] = ToPost(hit)
            /\ \A a, b \in DOMAIN posts : a # b => posts[a].id # posts[b].id
            /\ \A a, b \in DOMAIN posts :
                   a < b => posts[a].points >= posts[b].points

C15Witness ==
    /\ SearchReturned
    /\ Len(search.results) >= 3
    /\ search.results[1].points > search.results[Len(search.results)].points
    /\ \E a, b \in DOMAIN search.allResults :
           a < b /\ search.allResults[a] = search.allResults[b]
    /\ \E hit \in PoolHits : ~Relevant(hit, search.essay)

(***************************************************************************)
(* C16, as claimed: a hit is kept exactly when, comparing without regard   *)
(* to letter case in all four tests, its title contains the essay's title, *)
(* or its URL contains the essay's URL, or its URL contains                *)
(* paulgraham.com/ followed by the slug, or its text contains the essay's  *)
(* URL.                                                                    *)
(***************************************************************************)
TextOf(field) == IF field.some THEN field.v ELSE <<>>

IncludesIgnoringCase(str, part) ==
    Includes(ToLowerCase(str), ToLowerCase(part))

ResultIds == {search.results[k].id : k \in DOMAIN search.results}

ScorerIgnoresCaseInAllTests ==
    SearchReturned /\ ~search.threw =>
        ResultIds = {hit.objectID : hit \in {h \in PoolHits :
            \/ IncludesIgnoringCase(TextOf(h.title), search.essay.title)
            \/ IncludesIgnoringCase(TextOf(h.url), search.essay.url)
            \/ IncludesIgnoringCase(TextOf(h.url),
                                    DomainSlash \o search.essay.slug)
            \/ IncludesIgnoringCase(TextOf(h.story_text), search.essay.url)}}

(***************************************************************************)
(* C16, amended: a hit is kept exactly when its title contains the essay's *)
(* title without regard to letter case, or, letter for letter, its URL     *)
(* contains the essay's URL, or its URL contains paulgraham.com/ followed  *)
(* by the slug, or its text contains the essay's URL; a hit without URL    *)
(* and text is judged by its title alone, and no hit makes the filter      *)
(* throw.                                                                  *)
(***************************************************************************)
ScorerIgnoresCaseOfTitleOnly ==
    SearchReturned /\ PoolHits = Range(search.allResults) =>
        /\ ~search.threw
        /\ ResultIds = {hit.objectID : hit \in {h \in PoolHits :
               \/ IncludesIgnoringCase(TextOf(h.title), search.essay.title)
               \/ Includes(TextOf(h.url), search.essay.url)
               \/ Includes(TextOf(h.url), DomainSlash \o search.essay.slug)
               \/ Includes(TextOf(h.story_text), search.essay.url)}}
        /\ \A h \in PoolHits :
               ~h.url.some /\ ~h.story_text.some =>
                   (h.objectID \in ResultIds
                       <=> IncludesIgnoringCase(TextOf(h.title),
                                                search.essay.title))

C16Witness ==
    /\ SearchReturned
    /\ ~search.threw
    /\ {HTitle(search.essay), HHostCase(search.essay), HBare} \subseteq PoolHits
    /\ HTitle(search.essay).objectID \in ResultIds
    /\ HHostCase(search.essay).objectID \notin ResultIds
    /\ HBare.objectID \notin ResultIds

(***************************************************************************)
(* C17: a rejected request does not end the search: all five queries are   *)
(* issued in their order, the pool holds the hits of every query that was  *)
(* answered, before and after the rejected one, the result is not turned   *)
(* into the empty result of an error, and every hit of the pool that the   *)
(* filter accepts is in the result.                                        *)
(***************************************************************************)
RECURSIVE PooledUpTo(_, _)
\* the hits of the answered queries 1..k, in the order of the queries
PooledUpTo(service, k) ==
    IF k = 0 THEN <<>>
    ELSE PooledUpTo(service, k - 1)
             \o (IF service[k].ok /\ service[k].hits.some
                 THEN service[k].hits.v ELSE <<>>)

RejectedQueries == {k \in DOMAIN search.service : ~search.service[k].ok}

FailedQueryIsSkipped ==
    SearchReturned /\ RejectedQueries # {} =>
        /\ search.issued = Queries(search.essay)
        /\ search.allResults = PooledUpTo(search.service, 5)
        /\ search.threw => JsonNull \in Range(search.allResults)
        /\ ~search.threw =>
               \A hit \in PoolHits :
                   Relevant(hit, search.essay) => hit.objectID \in ResultIds

C17Witness ==
    /\ SearchReturned
    /\ RejectedQueries = {2}
    /\ search.service[1].hits.some /\ search.service[3].hits.some
    /\ HUrl(search.essay) \in Range(search.service[1].hits.v)
    /\ HSite(search.essay) \in Range(search.service[3].hits.v)
    /\ {HUrl(search.essay).objectID, HSite(search.essay).objectID}
           \subseteq ResultIds

(***************************************************************************)
(* C18, as claimed: when markCompleted has resolved, the completed flag    *)
(* is set, the progress file does not exist, and the results file is as    *)
(* it was and exists.                                                      *)
(***************************************************************************)
\* the step in which markCompleted resolves and main ends
MarkCompletedResolves == pc = "completing" /\ pc' = "finished"

CompletedLeavesOnlyResults ==
    [][MarkCompletedResolves =>
          /\ state.completed
          /\ disk'["progress"] = Absent
          /\ disk'["results"] = disk["results"]
          /\ disk'["results"] # Absent]_vars

(***************************************************************************)
(* C18, amended: when markCompleted has resolved, the completed flag is    *)
(* set and the results file is as it was before the call, existing if a    *)
(* markEssayProcessed has written it; the progress file does not exist,    *)
(* or, when fs.unlink was rejected, is as saveProgress left it.            *)
(***************************************************************************)
CompletedLeavesResultsAsTheyWere ==
    [][MarkCompletedResolves =>
          /\ state.completed
          /\ disk'["results"] = disk["results"]
          /\ disk'["progress"] # Absent => disk'["progress"] = disk["progress"]]_vars

C18Witness ==
    /\ pc = "finished"
    /\ disk["progress"] = Absent
    /\ disk["results"] # Absent

(***************************************************************************)
(* C19: for a tracker seeded with total essays of which processed are      *)
(* recorded, getStats returns processed, total, remaining = total -        *)
(* processed, as percentage the text of the number of tenths nearest to    *)
(* 100 * processed / total ("66.7" for 2 of 3), and hasResults exactly     *)
(* when an essay has been recorded.                                        *)
(***************************************************************************)
\* q tenths is a nearest number of tenths to 100 * processed / total
NearestTenths(q, processed, total) ==
    LET twice == 2 * (q * total - 1000 * processed)
    IN  -total <= twice /\ twice <= total

StatsAreCounts ==
    returned.op = "getStats" =>
        LET stats == returned.stats
            processed == Len(state.processedEssays)
            total == Len(state.essays)
        IN  /\ stats.processed = processed
            /\ stats.total = total
            /\ stats.remaining = total - processed
            /\ stats.hasResults <=> processed >= 1
            /\ total > 0 =>
                   \E q \in 0..1000 :
                       /\ NearestTenths(q, processed, total)
                       /\ stats.percentage =
                              Text(Decimal(q \div 10) \o <<".">> \o Decimal(q % 10))

C19Witness ==
    /\ returned.op = "getStats"
    /\ Len(state.essays) = 3
    /\ Len(state.processedEssays) = 2
    /\ returned.stats.total = 3
    /\ returned.stats.processed = 2
    /\ returned.stats.remaining = 1
    /\ returned.stats.percentage = Text(<<"6", "6", ".", "7">>)
    /\ returned.stats.hasResults

Persisted == {id \in DOMAIN state : disk[ProgressFile(id)] # Absent}

ListSessionsReturnsPersisted ==
    returned.op = "listSessions" /\ returned.read =>
        Range(returned.sessions) = Persisted

(***************************************************************************)
(* C22: --resume without a session id resumes the session of the greatest  *)
(* clock-made id among those that have a progress file, in whatever order  *)
(* readdir names the files, and starts a fresh run when no session has a   *)
(* progress file.                                                          *)
(***************************************************************************)
PersistedClocks ==
    {t \in 1..MaxClock : disk[ProgressFile(SessionIdAt(t))] # Absent}

LatestClock == CHOOSE t \in PersistedClocks : \A u \in PersistedClocks : u <= t

ResumeTakesLatest ==
    returned.op = "resume" /\ returned.read =>
        IF \A id \in SessionIds : disk[ProgressFile(id)] = Absent
        THEN returned.sessionId = None
        ELSE (\A id \in GivenIds : id \notin DOMAIN state) =>
                 returned.sessionId = Some(SessionIdAt(LatestClock))

(***************************************************************************)
(* C23: when main fails after the session was seeded (the report files     *)
(* cannot be written), the process exits with a non-zero status without    *)
(* the save and the unlink of markCompleted, and the progress file still   *)
(* exists.                                                                 *)
(***************************************************************************)
TopLevelFailure == pc = "report" /\ pc' = "exited"

SeededKeysAreUnique ==
    NoDuplicates([k \in DOMAIN state.essays |-> state.essays[k].title])

(***************************************************************************)
(* C25: once a write of the run has been rejected, a write of the progress *)
(* file that goes through leaves the file holding the whole state as       *)
(* saveProgress found it when the write started, with every essay recorded *)
(* by then in processedEssays and in results.                              *)
(***************************************************************************)
\* writer k's write of the progress file goes through in this step
ProgressWritten(k) ==
    /\ wr[k]["progress"].phase = "inflight"
    /\ IsSettled(wr'[k]["progress"])
    /\ disk'["progress"] # disk["progress"]

SaveAfterFailureIsComplete ==
    [][\A k \in Writers :
          writeFailed /\ ProgressWritten(k) =>
              /\ disk'["progress"] = wr[k]["progress"].text
              /\ KeysHaveResults(disk'["progress"].data)]_vars

(***************************************************************************)
(* C26: in one call of searchHackerNewsForEssay the five queries (title,   *)
(* quoted title, url, site-scoped title, slug) are issued one at a time in *)
(* that order, and the 100 ms delay has run between every two queries that *)
(* follow each other, whether the earlier one was answered or rejected.    *)
(***************************************************************************)
QueriesInOrderWithDelays ==
    search.at \in {"request", "delay", "done"} =>
        /\ search.issued = SubSeq(Queries(search.essay), 1, Len(search.issued))
        /\ search.delays >= Len(search.issued) - 1

(***************************************************************************)
(* C27: the essay list of a session is fixed once it is seeded: no step of *)
(* a run (markEssayProcessed, getRemainingEssays, isComplete, the saves,   *)
(* markCompleted, the batches) changes tracker.state.essays; a resume that *)
(* loads a state with a non-empty list goes on with exactly the loaded     *)
(* state and does not seed; a launch that finds no list seeds, and the     *)
(* seed leaves processedEssays, results and currentIndex as loaded.        *)
(***************************************************************************)
\* main starts in this step
Launches == pc \notin Running /\ pc' \in Running

\* the progress file holds a state with essays
ListCached ==
    disk["progress"].kind = "json" /\ Len(disk["progress"].data.essays) > 0

EssaysAreFixed ==
    [][/\ (pc \in Running /\ pc' \in Running) => state'.essays = state.essays
       /\ (Launches /\ ListCached) =>
              /\ state' = disk["progress"].data
              /\ pc' = "check"
              /\ wr' = NoWrites
       /\ (Launches /\ ~ListCached) =>
              LET tracker == LoadSession(disk["progress"])
              IN  /\ pc' = "seeding"
                  /\ state'.processedEssays = tracker.processedEssays
                  /\ state'.results = tracker.results
                  /\ state'.currentIndex = tracker.currentIndex]_vars

C27Witness ==
    /\ runs = 2
    /\ pc = "report"
    /\ Len(loaded) = 1
    /\ Len(state.essays) = MaxEssays
    /\ Len(state.processedEssays) = MaxEssays

(***************************************************************************)
(* C28: at every moment of a call of processEssaysInParallel with a batch  *)
(* size w >= 1, at most w essays have their search started and their       *)
(* markEssayProcessed not yet resolved.                                    *)
(***************************************************************************)
MembersInFlight == {j \in DOMAIN members : InFlightMember(j)}

AtMostWidthInFlight ==
    PositiveWidth => Cardinality(MembersInFlight) <= batchSize.v

C28Witness ==
    /\ PositiveWidth
    /\ batchSize.v = MaxWidth
    /\ Cardinality(MembersInFlight) = MaxWidth
    /\ \E j \in MembersInFlight :
           members[j].group = 2 /\ members[j].at = "recording"
    /\ \E j \in DOMAIN members : members[j].at = "pending"

(***************************************************************************)
(* C29: in every state of a tracker, isComplete() holds exactly when       *)
(* getRemainingEssays() is empty, and getStats().remaining is the number   *)
(* of essays getRemainingEssays() returns.                                 *)
(***************************************************************************)
CompleteIffNothingRemains ==
    (pc = "caller" /\ IsSessionState(state)) =>
        /\ IsComplete(state) <=> GetRemainingEssays(state) = <<>>
        /\ GetStats(state).remaining = Len(GetRemainingEssays(state))

(***************************************************************************)
(* C30: when processEssaysInParallel has returned from a call that         *)
(* processed essays and no write was rejected, the results file holds the  *)
(* results mapping of the state in memory, with an entry for every         *)
(* processed essay, in whatever order the writes of a batch settled.       *)
(***************************************************************************)
ResultsFileHoldsResults ==
    (pc = "report" /\ ~writeFailed /\ members # <<>>) =>
        /\ disk["results"] = Json(state.results)
        /\ \A t \in Range(state.processedEssays) :
               t \in DOMAIN disk["results"].data

====
